---- MODULE Spec2Model ----
(***************************************************************************)
(* hi-supabase: the setup command (init / uninstall) acting on a consumer  *)
(* project's directory tree, and the chatbot data-access layer.            *)
(*                                                                         *)
(* The project tree is a function from a fixed universe of relative paths  *)
(* to a node: "absent", "dir", or the content of a regular file.           *)
(***************************************************************************)
EXTENDS Integers, Sequences, FiniteSets, TLC

\* ------------------------------------------------------------------ bounds

\* At most this many injected I/O faults (missing templates, paths on which
\* a write / delete / listing is denied, a failing package manager).
MaxFaults == 1

\* At most this many rows are ever inserted into the chatbots table.
MaxRows == 2

\* ------------------------------------------------------------------ nodes

Absent == "absent"
Dir == "dir"
UserContent == "user"
\* path.join(projectRoot, '.') : the project root, always a directory
projectRoot == "."

NoError == "none"
\* an Error object that carries no `code` property
NoCode == "undefined"

\* ------------------------------------------------------------------ paths

ClientPath == "lib/supabase/server.ts"

Parent ==
  [ app |-> projectRoot ] @@
  ( "app/api" :> "app" ) @@
  ( "app/api/keep-alive" :> "app/api" ) @@
  ( "app/api/keep-alive/route.ts" :> "app/api/keep-alive" ) @@
  ( "app/api/keep-alive/keepAliveUtils.ts" :> "app/api/keep-alive" ) @@
  ( "app/api/keep-alive/notes.md" :> "app/api/keep-alive" ) @@
  ( "config" :> projectRoot ) @@
  ( "config/keep-alive-config.ts" :> "config" ) @@
  ( "config/site.ts" :> "config" ) @@
  ( "keep-alive.sql" :> projectRoot ) @@
  ( "vercel.json" :> projectRoot ) @@
  ( "vercel.json/data.txt" :> "vercel.json" ) @@
  ( "lib" :> projectRoot ) @@
  ( "lib/supabase" :> "lib" ) @@
  ( "lib/supabase/server.ts" :> "lib/supabase" ) @@
  ( "lib/supabase/client.ts" :> "lib/supabase" ) @@
  ( "utils" :> projectRoot ) @@
  ( "utils/supabase" :> "utils" ) @@
  ( "utils/supabase/server.ts" :> "utils/supabase" ) @@
  ( "utils/supabase/client.ts" :> "utils/supabase" )

Paths == DOMAIN Parent

\* path.dirname
dirname(p) == Parent[p]

RECURSIVE IsUnder(_, _)
\* q lies strictly below p in the tree
IsUnder(q, p) ==
  /\ q # projectRoot
  /\ \/ dirname(q) = p
     \/ IsUnder(dirname(q), p)

\* ------------------------------------------------------------------ manifest

filesToCopy ==
  << [ src |-> "route.ts", dest |-> "app/api/keep-alive/route.ts" ],
     [ src |-> "keepAliveUtils.ts", dest |-> "app/api/keep-alive/keepAliveUtils.ts" ],
     [ src |-> "keep-alive-config.ts", dest |-> "config/keep-alive-config.ts" ],
     [ src |-> "keep-alive.sql", dest |-> "keep-alive.sql" ],
     [ src |-> "vercel.json", dest |-> "vercel.json" ] >>

filesToDelete ==
  << "app/api/keep-alive/route.ts",
     "app/api/keep-alive/keepAliveUtils.ts",
     "config/keep-alive-config.ts",
     "keep-alive.sql",
     "vercel.json" >>

dirsToClean == << "app/api/keep-alive", "config" >>

commonPaths ==
  << "utils/supabase/server.ts", "lib/supabase/client.ts", "utils/supabase/client.ts" >>

ClientTemplate == "supabase-server.ts"

\* the files under templatesDir
Templates == { filesToCopy[i].src : i \in 1..Len(filesToCopy) } \cup { ClientTemplate }

\* the content of templatesDir/<src>
TemplateContent(src) ==
  CASE src = "route.ts" -> "template:route.ts"
    [] src = "keepAliveUtils.ts" -> "template:keepAliveUtils.ts"
    [] src = "keep-alive-config.ts" -> "template:keep-alive-config.ts"
    [] src = "keep-alive.sql" -> "template:keep-alive.sql"
    [] src = "vercel.json" -> "template:vercel.json"
    [] src = "supabase-server.ts" -> "template:supabase-server.ts"

\* ------------------------------------------------------------------ state

VARIABLES
  fs,           \* the project tree
  pkg,          \* package.json: "absent", "declared", "undeclared", "malformed"
  missing,      \* templates absent from templatesDir
  denied,       \* paths on which creating, writing, deleting or listing fails
  pmFails,      \* the package manager's install command fails
  op,           \* the command of the last run: "none", "init", "uninstall"
  prevOp,       \* the command of the run before it
  pre,          \* the tree before the last run
  base,         \* the tree before the run before it
  errs,         \* per manifest entry, the code of the error the last run caught
  outcomes,     \* per manifest entry, the branch the last run reported
  client,       \* what the client-file step of the last run did
  dirOutcomes,  \* per watched directory reached, what the last run did
  exit,         \* exit status of the last run
  chatbots,     \* the rows of the remote "chatbots" table
  nextId,       \* the next identifier the store generates
  call,         \* the last data-access call: its arguments, the store's answer, its result
  prevCall,     \* the data-access call before it
  removed       \* the rows the most recent deleteChatbot removed

setupVars ==
  << fs, pkg, missing, denied, pmFails, op, prevOp, pre, base, errs, outcomes,
     client, dirOutcomes, exit >>

dbVars == << chatbots, nextId, call, prevCall, removed >>

vars == << setupVars, dbVars >>

\* ------------------------------------------------------------------ fs-extra

IsDir(t, p) == p = projectRoot \/ t[p] = Dir

IsFile(t, p) == p # projectRoot /\ t[p] # Absent /\ t[p] # Dir

\* fs.existsSync
existsSync(t, p) == p = projectRoot \/ t[p] # Absent

\* fs.readdir of a directory
readdir(t, d) == { q \in Paths : dirname(q) = d /\ t[q] # Absent }

\* fs.remove: rm -rf, a file or a directory with everything below it
remove(t, p) ==
  [ q \in Paths |-> IF q = p \/ IsUnder(q, p) THEN Absent ELSE t[q] ]

RECURSIVE mkdirs(_, _, _)
\* mkdir -p; the error carries the code of the failing mkdir
mkdirs(t, d, den) ==
  IF d = projectRoot THEN [ fs |-> t, err |-> NoError ]
  ELSE LET r == mkdirs(t, dirname(d), den) IN
    IF r.err # NoError
      THEN [ fs |-> r.fs, err |-> IF r.err = "EEXIST" THEN "ENOTDIR" ELSE r.err ]
    ELSE IF r.fs[d] = Dir THEN r
    ELSE IF r.fs[d] # Absent THEN [ fs |-> r.fs, err |-> "EEXIST" ]
    ELSE IF d \in den THEN [ fs |-> r.fs, err |-> "EACCES" ]
    ELSE [ fs |-> [ r.fs EXCEPT ![d] = Dir ], err |-> NoError ]

\* fs.ensureDir
ensureDir(t, d, den) == mkdirs(t, d, den)

\* fs.copy of a template (a regular file) to dest
copy(t, src, dest, overwrite, errorOnExist, mis, den) ==
  IF src \in mis THEN [ fs |-> t, err |-> "ENOENT" ]
  ELSE IF t[dest] = Dir THEN [ fs |-> t, err |-> NoCode ]
  ELSE IF t[dest] # Absent /\ ~overwrite
    THEN [ fs |-> t, err |-> IF errorOnExist THEN NoCode ELSE NoError ]
  ELSE LET m == mkdirs(t, dirname(dest), den) IN
    IF m.err # NoError THEN m
    ELSE IF dest \in den THEN [ fs |-> m.fs, err |-> "EACCES" ]
    ELSE [ fs |-> [ m.fs EXCEPT ![dest] = TemplateContent(src) ], err |-> NoError ]

\* ------------------------------------------------------------------ init

\* the branch of the catch block in init's loop
Outcome(err) ==
  IF err = NoError THEN "Created"
  ELSE IF err = "EEXIST" THEN "SkippedExisting"
  ELSE "Failed"

\* copyEntry with the copy allowed to overwrite
copyEntryOverwriting(t, file, mis, den) ==
  LET d == ensureDir(t, dirname(file.dest), den) IN
  IF d.err # NoError THEN d
  ELSE copy(d.fs, file.src, file.dest, TRUE, FALSE, mis, den)

\* one iteration of init's loop: the try block
copyEntry(t, file, mis, den) ==
  LET d == ensureDir(t, dirname(file.dest), den) IN
  IF d.err # NoError THEN d
  ELSE copy(d.fs, file.src, file.dest, FALSE, TRUE, mis, den)

RECURSIVE copyFiles(_, _, _, _, _)
\* init's loop over filesToCopy from entry i on; es are the errors caught so far
copyFiles(t, i, es, mis, den) ==
  IF i > Len(filesToCopy) THEN [ fs |-> t, errs |-> es ]
  ELSE LET r == copyEntry(t, filesToCopy[i], mis, den) IN
    copyFiles(r.fs, i + 1, Append(es, r.err), mis, den)

\* checkAndCreateSupabaseClient without the early return on an existing client
checkAndCreateSupabaseClientAlways(t, mis, den) ==
  LET d == ensureDir(t, dirname(ClientPath), den)
      c == IF d.err # NoError THEN d
           ELSE copy(d.fs, ClientTemplate, ClientPath, TRUE, FALSE, mis, den)
  IN [ fs |-> c.fs, did |-> IF c.err # NoError THEN "error" ELSE "created" ]

checkAndCreateSupabaseClient(t, mis, den) ==
  IF existsSync(t, ClientPath) THEN [ fs |-> t, did |-> "found" ]
  ELSE LET d == ensureDir(t, dirname(ClientPath), den)
           c == IF d.err # NoError THEN d
                ELSE copy(d.fs, ClientTemplate, ClientPath, TRUE, FALSE, mis, den)
           warn == \E k \in 1..Len(commonPaths) : existsSync(t, commonPaths[k])
       IN [ fs |-> c.fs,
            did |-> IF c.err # NoError THEN "error"
                    ELSE IF warn THEN "created-warned" ELSE "created" ]

\* package.json after installDependencies, and whether readJsonSync threw
installDependencies(p, fails) ==
  IF p = "absent" THEN [ pkg |-> p, threw |-> FALSE ]
  ELSE IF p = "malformed" THEN [ pkg |-> p, threw |-> TRUE ]
  ELSE IF p = "undeclared" /\ ~fails THEN [ pkg |-> "declared", threw |-> FALSE ]
  ELSE [ pkg |-> p, threw |-> FALSE ]

\* the whole of init: the loop, the client step, the dependency step
init(t, p, mis, den, fails) ==
  LET l == copyFiles(t, 1, << >>, mis, den)
      c == checkAndCreateSupabaseClient(l.fs, mis, den)
      d == installDependencies(p, fails)
  IN [ fs |-> c.fs, errs |-> l.errs, client |-> c.did, pkg |-> d.pkg,
       exit |-> IF d.threw THEN 1 ELSE 0 ]

\* ------------------------------------------------------------------ uninstall

\* one iteration of uninstall's first loop
deleteEntry(t, file, den) ==
  IF existsSync(t, file)
    THEN IF file \in den THEN [ fs |-> t, err |-> "EPERM", out |-> "Failed" ]
         ELSE [ fs |-> remove(t, file), err |-> NoError, out |-> "Deleted" ]
  ELSE [ fs |-> t, err |-> NoError, out |-> "NotFound" ]

RECURSIVE deleteFiles(_, _, _, _, _)
\* uninstall's loop over filesToDelete from entry i on
deleteFiles(t, i, es, os, den) ==
  IF i > Len(filesToDelete) THEN [ fs |-> t, errs |-> es, outs |-> os ]
  ELSE LET r == deleteEntry(t, filesToDelete[i], den) IN
    deleteFiles(r.fs, i + 1, Append(es, r.err), Append(os, r.out), den)

\* cleanDir without the test that the listing is empty
cleanDirUnchecked(t, dir, den) ==
  IF ~existsSync(t, dir) THEN [ fs |-> t, out |-> "missing", threw |-> FALSE ]
  ELSE IF ~IsDir(t, dir) THEN [ fs |-> t, out |-> "ENOTDIR", threw |-> TRUE ]
  ELSE IF dir \in den THEN [ fs |-> t, out |-> "EACCES", threw |-> TRUE ]
  ELSE [ fs |-> remove(t, dir), out |-> "removed", threw |-> FALSE ]

\* one iteration of uninstall's second loop; threw: the rejection escapes uninstall
cleanDir(t, dir, den) ==
  IF ~existsSync(t, dir) THEN [ fs |-> t, out |-> "missing", threw |-> FALSE ]
  ELSE IF ~IsDir(t, dir) THEN [ fs |-> t, out |-> "ENOTDIR", threw |-> TRUE ]
  ELSE IF dir \in den THEN [ fs |-> t, out |-> "EACCES", threw |-> TRUE ]
  ELSE IF readdir(t, dir) = {} THEN [ fs |-> remove(t, dir), out |-> "removed", threw |-> FALSE ]
  ELSE [ fs |-> t, out |-> "kept", threw |-> FALSE ]

RECURSIVE cleanDirs(_, _, _, _)
\* uninstall's loop over dirsToClean from entry i on; it stops at the first throw
cleanDirs(t, i, os, den) ==
  IF i > Len(dirsToClean) THEN [ fs |-> t, outs |-> os, threw |-> FALSE ]
  ELSE LET r == cleanDir(t, dirsToClean[i], den) IN
    IF r.threw THEN [ fs |-> r.fs, outs |-> Append(os, r.out), threw |-> TRUE ]
    ELSE cleanDirs(r.fs, i + 1, Append(os, r.out), den)

\* the whole of uninstall
uninstall(t, den) ==
  LET l == deleteFiles(t, 1, << >>, << >>, den)
      c == cleanDirs(l.fs, 1, << >>, den)
  IN [ fs |-> c.fs, errs |-> l.errs, outcomes |-> l.outs, dirs |-> c.outs,
       exit |-> IF c.threw THEN 1 ELSE 0 ]

\* ------------------------------------------------------------------ trees

EmptyTree == [ p \in Paths |-> Absent ]

\* the tree t with the nodes of a laid over it
With(t, a) == [ p \in Paths |-> IF p \in DOMAIN a THEN a[p] ELSE t[p] ]

Nothing == [ p \in {} |-> Absent ]

AppDirs == ( "app" :> Dir ) @@ ( "app/api" :> Dir )

KeepAlive == AppDirs @@ ( "app/api/keep-alive" :> Dir )

AppTrees ==
  { Nothing,
    ( "app" :> Dir ) @@ ( "app/api" :> UserContent ),
    AppDirs @@ ( "app/api/keep-alive" :> UserContent ),
    KeepAlive @@ ( "app/api/keep-alive/notes.md" :> UserContent ),
    KeepAlive @@ ( "app/api/keep-alive/route.ts" :> UserContent ),
    KeepAlive @@ ( "app/api/keep-alive/route.ts" :> TemplateContent("route.ts") )
              @@ ( "app/api/keep-alive/keepAliveUtils.ts" :> TemplateContent("keepAliveUtils.ts") ) }

ConfigTrees ==
  { Nothing,
    ( "config" :> UserContent ),
    ( "config" :> Dir ) @@ ( "config/site.ts" :> UserContent ),
    ( "config" :> Dir ) @@ ( "config/keep-alive-config.ts" :> UserContent ) }

RootTrees ==
  { Nothing,
    ( "keep-alive.sql" :> UserContent ) @@ ( "vercel.json" :> UserContent ),
    ( "keep-alive.sql" :> TemplateContent("keep-alive.sql") )
      @@ ( "vercel.json" :> TemplateContent("vercel.json") ),
    ( "vercel.json" :> Dir ) @@ ( "vercel.json/data.txt" :> UserContent ) }

LibDirs == ( "lib" :> Dir ) @@ ( "lib/supabase" :> Dir )

UtilsClient ==
  ( "utils" :> Dir ) @@ ( "utils/supabase" :> Dir )
    @@ ( "utils/supabase/server.ts" :> UserContent )

LibTrees ==
  { Nothing,
    UtilsClient,
    ( "lib" :> UserContent ),
    LibDirs @@ ( "lib/supabase/server.ts" :> UserContent ) }

\* the project trees a run may start from
Trees ==
  { With(With(With(With(EmptyTree, a), c), r), l) :
      a \in AppTrees, c \in ConfigTrees, r \in RootTrees, l \in LibTrees }

\* every node but the root has a directory above it
WellFormed(t) == \A p \in Paths : t[p] # Absent => IsDir(t, dirname(p))

\* ------------------------------------------------------------------ faults

\* the templates an injected fault may remove from templatesDir
FaultTemplates == { "route.ts", "keep-alive.sql", ClientTemplate }

\* the paths on which an injected fault may deny the operation
FaultPaths ==
  { "app/api/keep-alive/route.ts", "vercel.json", ClientPath }
    \cup { dirsToClean[i] : i \in 1..Len(dirsToClean) }

PackageStates == { "absent", "declared", "undeclared", "malformed" }

\* ------------------------------------------------------------------ data access

Users == { "u1", "u2" }
Slugs == { "hotel", "cafe" }
BotNames == { "Ada", "Bob" }

\* Omit<ChatbotType, "id" | "created_at">, reduced to owner, slug and one display field
ChatbotData == [ user_id : Users, bot_slug : Slugs, bot_name : BotNames ]

NoArg == [ user_id |-> "", bot_slug |-> "", bot_name |-> "", id |-> 0 ]

NoCall ==
  [ fn |-> "none", arg |-> NoArg, data |-> << >>, error |-> NoError,
    returned |-> << >>, thrown |-> NoError ]

\* the row the store makes of an insert: the values plus id and created_at
NewRow(data, id) ==
  [ id |-> id, created_at |-> id, user_id |-> data.user_id,
    bot_slug |-> data.bot_slug, bot_name |-> data.bot_name ]

RECURSIVE SortDesc(_)
\* rows ordered by created_at, newest first
SortDesc(rows) ==
  IF rows = {} THEN << >>
  ELSE LET r == CHOOSE x \in rows : \A y \in rows : y.created_at <= x.created_at
       IN << r >> \o SortDesc(rows \ { r })

\* supabase.from("chatbots").insert(data).select().single()
InsertSelectSingle(rows, id, data, down) ==
  IF down THEN [ rows |-> rows, data |-> << >>, error |-> "fetch failed" ]
  ELSE IF \E r \in rows : r.bot_slug = data.bot_slug
    THEN [ rows |-> rows, data |-> << >>, error |-> "23505" ]
  ELSE [ rows |-> rows \cup { NewRow(data, id) }, data |-> << NewRow(data, id) >>,
         error |-> NoError ]

\* supabase.from("chatbots").select("*").eq("user_id", userId).order("created_at", desc)
SelectByUser(rows, userId, down) ==
  IF down THEN [ data |-> << >>, error |-> "fetch failed" ]
  ELSE [ data |-> SortDesc({ r \in rows : r.user_id = userId }), error |-> NoError ]

\* .select("*").eq(column, value).single()
SelectSingle(rows, column, value, down) ==
  LET hit == { r \in rows : IF column = "bot_slug" THEN r.bot_slug = value
                                                  ELSE r.user_id = value } IN
  IF down THEN [ data |-> << >>, error |-> "fetch failed" ]
  ELSE IF Cardinality(hit) = 1 THEN [ data |-> << CHOOSE r \in hit : TRUE >>, error |-> NoError ]
  ELSE [ data |-> << >>, error |-> "PGRST116" ]

\* supabase.from("chatbots").delete().eq("id", id)
DeleteById(rows, id, down) ==
  IF down THEN [ rows |-> rows, error |-> "fetch failed" ]
  ELSE [ rows |-> { r \in rows : r.id # id }, error |-> NoError ]

\* if (error) throw error; return data
Settle(fn, arg, res) ==
  [ fn |-> fn, arg |-> arg, data |-> res.data, error |-> res.error,
    returned |-> IF res.error # NoError THEN << >> ELSE res.data,
    thrown |-> res.error ]

createChatbot(rows, id, data, down) ==
  LET res == InsertSelectSingle(rows, id, data, down) IN
  [ rows |-> res.rows,
    call |-> Settle("createChatbot",
                    [ user_id |-> data.user_id, bot_slug |-> data.bot_slug,
                      bot_name |-> data.bot_name, id |-> 0 ],
                    res) ]

getChatbotsByUserId(rows, userId, down) ==
  Settle("getChatbotsByUserId", [ NoArg EXCEPT !.user_id = userId ],
         SelectByUser(rows, userId, down))

\* getChatbotBySlug filtering on the owner column
getChatbotBySlugByOwner(rows, slug, down) ==
  Settle("getChatbotBySlug", [ NoArg EXCEPT !.bot_slug = slug ],
         SelectSingle(rows, "user_id", slug, down))

getChatbotBySlug(rows, slug, down) ==
  Settle("getChatbotBySlug", [ NoArg EXCEPT !.bot_slug = slug ],
         SelectSingle(rows, "bot_slug", slug, down))

deleteChatbot(rows, id, down) ==
  LET res == DeleteById(rows, id, down) IN
  [ rows |-> res.rows,
    call |-> Settle("deleteChatbot", [ NoArg EXCEPT !.id = id ],
                    [ data |-> << >>, error |-> res.error ]) ]

\* ------------------------------------------------------------------ behaviour

NoData ==
  /\ chatbots = {}
  /\ nextId = 1
  /\ call = NoCall
  /\ prevCall = NoCall
  /\ removed = {}

Init ==
  /\ NoData
  /\ fs \in Trees
  /\ pkg \in PackageStates
  /\ missing \in SUBSET FaultTemplates
  /\ denied \in SUBSET FaultPaths
  /\ pmFails \in BOOLEAN
  /\ Cardinality(missing) + Cardinality(denied) + (IF pmFails THEN 1 ELSE 0) <= MaxFaults
  /\ op = "none"
  /\ prevOp = "none"
  /\ pre = fs
  /\ base = fs
  /\ errs = << >>
  /\ outcomes = << >>
  /\ client = "none"
  /\ dirOutcomes = << >>
  /\ exit = 0

\* `hi-supabase` : the default command
Provision ==
  \E r \in { init(fs, pkg, missing, denied, pmFails) } :
  /\ fs' = r.fs
  /\ pkg' = r.pkg
  /\ errs' = r.errs
  /\ outcomes' = [ i \in 1..Len(r.errs) |-> Outcome(r.errs[i]) ]
  /\ client' = r.client
  /\ dirOutcomes' = << >>
  /\ exit' = r.exit
  /\ op' = "init"
  /\ prevOp' = op
  /\ pre' = fs
  /\ base' = pre
  /\ UNCHANGED << missing, denied, pmFails, dbVars >>

\* `hi-supabase uninstall`
Decommission ==
  \E r \in { uninstall(fs, denied) } :
  /\ fs' = r.fs
  /\ errs' = r.errs
  /\ outcomes' = r.outcomes
  /\ client' = "none"
  /\ dirOutcomes' = r.dirs
  /\ exit' = r.exit
  /\ op' = "uninstall"
  /\ prevOp' = op
  /\ pre' = fs
  /\ base' = pre
  /\ UNCHANGED << pkg, missing, denied, pmFails, dbVars >>

Next == Provision \/ Decommission

Spec == Init /\ [][Next]_vars

\* ------------------------------------------------------------------ data-access behaviour

InitDb ==
  /\ NoData
  /\ fs = EmptyTree
  /\ pkg = "absent"
  /\ missing = {}
  /\ denied = {}
  /\ pmFails = FALSE
  /\ op = "none"
  /\ prevOp = "none"
  /\ pre = fs
  /\ base = fs
  /\ errs = << >>
  /\ outcomes = << >>
  /\ client = "none"
  /\ dirOutcomes = << >>
  /\ exit = 0

CreateChatbot ==
  \E data \in ChatbotData, down \in BOOLEAN :
    \E r \in { createChatbot(chatbots, nextId, data, down) } :
      /\ nextId <= MaxRows
      /\ chatbots' = r.rows
      /\ nextId' = IF r.call.thrown = NoError THEN nextId + 1 ELSE nextId
      /\ call' = r.call
      /\ prevCall' = call
      /\ removed' = {}
      /\ UNCHANGED setupVars

GetChatbotsByUserId ==
  \E userId \in Users, down \in BOOLEAN :
    /\ call' = getChatbotsByUserId(chatbots, userId, down)
    /\ prevCall' = call
    /\ UNCHANGED << chatbots, nextId, removed, setupVars >>

GetChatbotBySlug ==
  \E slug \in Slugs, down \in BOOLEAN :
    /\ call' = getChatbotBySlug(chatbots, slug, down)
    /\ prevCall' = call
    /\ UNCHANGED << chatbots, nextId, removed, setupVars >>

DeleteChatbot ==
  \E id \in 1..MaxRows, down \in BOOLEAN :
    \E r \in { deleteChatbot(chatbots, id, down) } :
      /\ chatbots' = r.rows
      /\ call' = r.call
      /\ prevCall' = call
      /\ removed' = chatbots \ r.rows
      /\ UNCHANGED << nextId, setupVars >>

NextDb == CreateChatbot \/ GetChatbotsByUserId \/ GetChatbotBySlug \/ DeleteChatbot

SpecDb == InitDb /\ [][NextDb]_vars

\* ------------------------------------------------------------------ properties

TypeOK ==
  /\ WellFormed(fs)
  /\ exit \in {0, 1}
  /\ Len(outcomes) \in {0, Len(filesToCopy)}

Entries == 1..Len(filesToCopy)

Dest(i) == filesToCopy[i].dest

Managed == { Dest(i) : i \in Entries }

Watched == { dirsToClean[i] : i \in 1..Len(dirsToClean) }

\* the entry of the manifest whose destination is p
EntryOf(p) == CHOOSE i \in Entries : Dest(i) = p

\* what the last uninstall left in the watched directory d once its first loop was done
LeftIn(d) ==
  { q \in Paths : /\ dirname(q) = d
                  /\ pre[q] # Absent
                  /\ ~(q \in Managed /\ outcomes[EntryOf(q)] = "Deleted") }

\* C1: init never clobbers a destination that exists when it runs: the node at
\* the destination, and whatever lies below it, is after the run what it was before.
C1_ProvisionNeverClobbers ==
  op = "init" =>
    \A i \in Entries : \A q \in Paths :
      (pre[Dest(i)] # Absent /\ (q = Dest(i) \/ IsUnder(q, Dest(i)))) => fs[q] = pre[q]

\* an init that found the user's own vercel.json, left it, and created route.ts
C1_Witness ==
  /\ op = "init"
  /\ pre["vercel.json"] = UserContent
  /\ fs["vercel.json"] = UserContent
  /\ pre["app/api/keep-alive/route.ts"] = Absent
  /\ fs["app/api/keep-alive/route.ts"] = TemplateContent("route.ts")

\* C2: init followed by uninstall puts every manifest destination back to what it
\* was before init, and removes each watched directory init created iff it is
\* empty once the manifest files are deleted.
C2_RoundTripRestores ==
  (op = "uninstall" /\ prevOp = "init") =>
    /\ \A p \in Managed : fs[p] = base[p]
    /\ \A d \in Watched :
         (base[d] = Absent /\ pre[d] = Dir) => (fs[d] = Absent <=> LeftIn(d) = {})

\* C3: a second init in a row reports SkippedExisting for every entry whose
\* destination the first run left in place, and leaves its content alone.
C3_ProvisionIdempotent ==
  (op = "init" /\ prevOp = "init") =>
    \A i \in Entries :
      (IsFile(pre, Dest(i)) /\ filesToCopy[i].src \notin missing) =>
        /\ outcomes[i] = "SkippedExisting"
        /\ fs[Dest(i)] = pre[Dest(i)]

\* C4: a watched directory that holds an unmanaged file is left in place by
\* uninstall, and so is that file.
C4_UnmanagedFileKeepsDirectory ==
  op = "uninstall" =>
    \A d \in Watched : \A q \in Paths :
      (dirname(q) = d /\ q \notin Managed /\ pre[q] # Absent) =>
        /\ fs[d] = Dir
        /\ fs[q] = pre[q]

\* an uninstall that deleted route.ts beside the user's notes.md
C4_Witness ==
  /\ op = "uninstall"
  /\ outcomes[1] = "Deleted"
  /\ fs["app/api/keep-alive/route.ts"] = Absent
  /\ fs["app/api/keep-alive/notes.md"] = UserContent
  /\ fs["app/api/keep-alive"] = Dir

\* C5: no failure in uninstall is fatal: every manifest entry and every watched
\* directory is processed and the exit status is 0.
C5_DecommissionFailuresNotFatal ==
  op = "uninstall" =>
    /\ Len(outcomes) = Len(filesToDelete)
    /\ Len(dirOutcomes) = Len(dirsToClean)
    /\ exit = 0

\* entry i of init cannot be provisioned: its template is missing, its parent
\* directory cannot be created, or writing the destination is denied
EntryFails(i) ==
  \/ filesToCopy[i].src \in missing
  \/ ensureDir(pre, dirname(Dest(i)), denied).err # NoError
  \/ (pre[Dest(i)] = Absent /\ Dest(i) \in denied)

\* the errors of init on the tree before the last run, had entry i not failed
ErrsWithout(i) ==
  copyFiles(pre, 1, << >>, missing \ { filesToCopy[i].src }, denied \ { Dest(i) }).errs

\* C6: in init an entry that cannot be provisioned is reported Failed, all five
\* entries and the client step still run, and the entries that do not fail
\* themselves are reported as they would be had it not failed.
C6_ProvisionFailureIsolated ==
  op = "init" =>
    /\ Len(outcomes) = Len(filesToCopy)
    /\ client # "none"
    /\ \A i \in Entries :
         EntryFails(i) =>
           /\ outcomes[i] = "Failed"
           /\ \A j \in Entries \ { i } :
                ~EntryFails(j) => outcomes[j] = Outcome(ErrsWithout(i)[j])

\* C7: no run changes a client file that exists at lib/supabase/server.ts, and
\* init creates it from the template when it is absent there, also when a
\* client exists at one of the other common paths.
C7_ClientFilePreserved ==
  [][ /\ fs[ClientPath] # Absent => fs'[ClientPath] = fs[ClientPath]
      /\ (fs[ClientPath] = Absent /\ fs'[ClientPath] # Absent) =>
           /\ op' = "init"
           /\ fs'[ClientPath] = TemplateContent(ClientTemplate)
      /\ ( /\ op' = "init"
           /\ fs[ClientPath] = Absent
           /\ ClientTemplate \notin missing
           /\ ClientPath \notin denied
           /\ ensureDir(fs, dirname(ClientPath), denied).err = NoError ) =>
           fs'[ClientPath] = TemplateContent(ClientTemplate)
    ]_vars

\* a client that init created beside utils/supabase/server.ts and uninstall kept
C7_Witness ==
  /\ op = "uninstall"
  /\ prevOp = "init"
  /\ base[ClientPath] = Absent
  /\ base["utils/supabase/server.ts"] = UserContent
  /\ fs[ClientPath] = TemplateContent(ClientTemplate)

\* C8: uninstall on a tree holding none of the five destinations reports NotFound
\* for each, raises no error and changes no file.
C8_DecommissionWithoutProvision ==
  (op = "uninstall" /\ \A p \in Managed : pre[p] = Absent) =>
    /\ \A i \in Entries : outcomes[i] = "NotFound"
    /\ \A i \in Entries : errs[i] = NoError
    /\ exit = 0
    /\ \A p \in Paths : IsFile(pre, p) => fs[p] = pre[p]

\* C9: every data-access call throws exactly the store's error and otherwise
\* returns the store's rows; getChatbotBySlug right after a createChatbot of that
\* slug returns the inserted values with a generated id and created_at; right
\* after a deleteChatbot of a row with that slug it throws.
C9_DataAccessRoundTrip ==
  /\ call.fn # "none" =>
       /\ call.thrown = call.error
       /\ call.returned = (IF call.error = NoError THEN call.data ELSE << >>)
  /\ (call.fn = "createChatbot" /\ call.thrown = NoError) =>
       /\ Len(call.returned) = 1
       /\ call.returned[1].user_id = call.arg.user_id
       /\ call.returned[1].bot_slug = call.arg.bot_slug
       /\ call.returned[1].bot_name = call.arg.bot_name
       /\ call.returned[1].id \in 1..MaxRows
       /\ \A r \in chatbots : r.id = call.returned[1].id => r = call.returned[1]
  /\ ( /\ call.fn = "getChatbotBySlug"
       /\ prevCall.fn = "createChatbot"
       /\ prevCall.thrown = NoError
       /\ call.arg.bot_slug = prevCall.arg.bot_slug
       /\ call.error # "fetch failed" ) =>
       /\ call.thrown = NoError
       /\ call.returned = prevCall.returned
  /\ ( /\ call.fn = "getChatbotBySlug"
       /\ prevCall.fn = "deleteChatbot"
       /\ prevCall.thrown = NoError
       /\ \E r \in removed : r.bot_slug = call.arg.bot_slug ) =>
       /\ call.thrown # NoError
       /\ call.returned = << >>

\* a fetch by slug that found no row right after the row with that slug was deleted
C9_Witness ==
  /\ call.fn = "getChatbotBySlug"
  /\ prevCall.fn = "deleteChatbot"
  /\ \E r \in removed : r.bot_slug = call.arg.bot_slug /\ r.bot_name = "Bob"
  /\ call.thrown = "PGRST116"

\* C10: the only nodes an uninstall removes are regular files at the five manifest
\* destinations and watched directories left empty by the deletions; every other
\* node is after the run what it was before.
C10_DecommissionRemovesOnlyManaged ==
  op = "uninstall" =>
    \A p \in Paths :
      fs[p] # pre[p] =>
        \/ (p \in Managed /\ IsFile(pre, p))
        \/ (p \in Watched /\ pre[p] = Dir /\ LeftIn(p) = {})

====
